---- MODULE Spec2Model ----
(***************************************************************************)
(* QuickLink infrastructure: the stack declared by QuickLinkStack.__init__ *)
(* (infrastructure/quicklink_stack.py) and the entry point that builds,    *)
(* synthesizes and writes it (infrastructure/app.py).                      *)
(*                                                                         *)
(* The stack is a straight-line program over a construct graph: resource   *)
(* descriptors, grant statements and output declarations. The graph engine *)
(* the program calls into (resource registration, grants, reference        *)
(* resolution) is a library outside the repository; its contract is taken  *)
(* from the specification (sections 3, 4 and 7).                           *)
(***************************************************************************)
EXTENDS Integers, Sequences, FiniteSets, TLC

VARIABLES
    driver,       \* who builds the graph: the stack program or an arbitrary caller
    account,      \* context value "account" (Absent when try_get_context gives None)
    region,       \* context value "region" (Absent when try_get_context gives None)
    run,          \* number of the current process run (1-based)
    pc,           \* position of the run
    stmt,         \* index of the next statement of the stack program
    calls,        \* construction calls made so far in this run
    last,         \* the call into the graph engine made last in this run
    descriptors,  \* StackGraph: resource descriptors, in insertion order
    grants,       \* StackGraph: grant statements
    outputs,      \* StackGraph: output declarations, in declaration order
    template,     \* the synthesized document of this run (<<>> before synthesis)
    error,        \* the error that ended this run ("None" when there is none)
    outDir,       \* TRUE when the directory cdk.out exists
    files         \* files under cdk.out: set of [path, content]

vars == <<driver, account, region, run, pc, stmt, calls, last, descriptors, grants,
          outputs, template, error, outDir, files>>

graphVars == <<descriptors, grants, outputs>>
ctxVars == <<driver, account, region>>
fsVars == <<outDir, files>>

(***************************************************************************)
(* Bounds                                                                  *)
(***************************************************************************)
MaxRuns == 2
MaxCalls == 3

(***************************************************************************)
(* Property values                                                         *)
(***************************************************************************)
Lit(s) == [tag |-> "str", s |-> s]
Num(n) == [tag |-> "num", n |-> n]
Bool(b) == [tag |-> "bool", b |-> b]
List(items) == [tag |-> "list", items |-> items]
Attribute(name, type) == [tag |-> "attr", name |-> name, type |-> type]
Map(entries) == [tag |-> "map", entries |-> entries]
\* None: what try_get_context returns for a key the context lacks
Absent == [tag |-> "none"]
\* Python truth value of a context value: None, "", 0, False, [] and {} are falsy
Falsy(v) ==
    \/ v.tag = "none"
    \/ v.tag = "str" /\ v.s = ""
    \/ v.tag = "num" /\ v.n = 0
    \/ v.tag = "bool" /\ ~v.b
    \/ v.tag = "list" /\ v.items = <<>>
    \/ v.tag = "map" /\ DOMAIN v.entries = {}
\* a use of another construct object (self.quicklink_function as handler)
Dep(logicalId) == [tag |-> "dep", logicalId |-> logicalId]
\* a deferred pointer to another descriptor's runtime-assigned output
makeReference(source, outputName) ==
    [tag |-> "ref", sourceLogicalId |-> source, outputName |-> outputName]
\* f"{ref}suffix": a deferred value followed by a literal suffix
Concat(ref, suffix) == [tag |-> "join", ref |-> ref, suffix |-> suffix]

\* the References directly inside one value
DirectRefs(v) ==
    IF v.tag = "ref" THEN {v}
    ELSE IF v.tag = "join" THEN {v.ref}
    ELSE {}

\* every Reference a value contains
RefsOf(v) ==
    IF v.tag = "map"
    THEN UNION {DirectRefs(v.entries[k]) : k \in DOMAIN v.entries}
    ELSE DirectRefs(v)

\* the logical ids a value depends on
DepsOf(v) ==
    {r.sourceLogicalId : r \in RefsOf(v)}
        \cup (IF v.tag = "dep" THEN {v.logicalId} ELSE {})

PropRefs(properties) == UNION {RefsOf(properties[k]) : k \in DOMAIN properties}
PropDeps(properties) == UNION {DepsOf(properties[k]) : k \in DOMAIN properties}

(***************************************************************************)
(* Graph engine                                                            *)
(***************************************************************************)
Kinds == {"Table", "Queue", "Function", "ApiGateway"}

Ids(descs) == {descs[i].logicalId : i \in 1..Len(descs)}

Descriptor(descs, id) ==
    descs[CHOOSE i \in 1..Len(descs) : descs[i].logicalId = id]

\* the named outputs a descriptor of each kind exposes
KindOutputs(kind) ==
    CASE kind = "Table" -> {"table_name"}
      [] kind = "Queue" -> {"queue_url"}
      [] kind = "Function" -> {"function_name"}
      [] kind = "ApiGateway" -> {"url"}

\* the properties a descriptor of each kind cannot be created without
RequiredProps(kind) ==
    CASE kind = "Table" -> {"partition_key"}
      [] kind = "Queue" -> {}
      [] kind = "Function" -> {"runtime", "handler", "code"}
      [] kind = "ApiGateway" -> {"handler"}

\* createResource: the error the call raises, "None" when it succeeds
CreateError(descs, kind, logicalId, properties) ==
    IF logicalId \in Ids(descs) THEN "DuplicateIdentity"
    ELSE IF ~(RequiredProps(kind) \subseteq DOMAIN properties) THEN "MissingProperty"
    ELSE IF ~(PropDeps(properties) \subseteq Ids(descs)) THEN "OutOfOrderConstruction"
    ELSE "None"

createResource(descs, kind, logicalId, properties) ==
    Append(descs, [logicalId |-> logicalId, kind |-> kind, properties |-> properties])

Capabilities == {"ReadWriteData", "SendMessage", "InvokeFunction"}

\* the static capability table: provider-level actions of each capability
CapabilityActions(capability) ==
    CASE capability = "ReadWriteData" ->
            {"Get", "Put", "Update", "Delete", "Query", "Scan"}
      [] capability = "SendMessage" -> {"SendMessage"}
      [] capability = "InvokeFunction" -> {"Invoke"}

\* the capabilities each resource kind supports
SupportedCapabilities(kind) ==
    CASE kind = "Table" -> {"ReadWriteData"}
      [] kind = "Queue" -> {"SendMessage"}
      [] kind = "Function" -> {"InvokeFunction"}
      [] kind = "ApiGateway" -> {}

\* grant: the error the call raises, "None" when it succeeds
GrantError(descs, principal, resource, capability) ==
    IF ~({principal, resource} \subseteq Ids(descs)) THEN "DanglingGrant"
    ELSE IF capability \notin SupportedCapabilities(Descriptor(descs, resource).kind)
         THEN "UnsupportedCapability"
    ELSE "None"

GrantStatement(principal, resource, actions) ==
    [principalLogicalId |-> principal, resourceLogicalId |-> resource,
     actions |-> actions, effect |-> "Allow"]

SamePair(g, principal, resource) ==
    g.principalLogicalId = principal /\ g.resourceLogicalId = resource

\* grant: statements of one principal/resource pair accumulate into one
grant(gs, principal, resource, capability) ==
    LET old == {g \in gs : SamePair(g, principal, resource)}
        acts == CapabilityActions(capability) \cup UNION {g.actions : g \in old}
    IN  (gs \ old) \cup {GrantStatement(principal, resource, acts)}

\* an output declaration: the error the call raises
OutputError(descs, value) ==
    IF ~(DepsOf(value) \subseteq Ids(descs)) THEN "OutOfOrderConstruction"
    ELSE "None"

OutputDeclaration(name, value, description) ==
    [name |-> name, value |-> value, description |-> description]

(***************************************************************************)
(* Synthesis                                                               *)
(***************************************************************************)
\* the physical name a descriptor was given, its logical id when it has none
PhysicalName(d, prop) ==
    IF prop \in DOMAIN d.properties THEN d.properties[prop].s ELSE d.logicalId

\* an environment field as it appears inside an identifier
EnvText(v) == IF v.tag = "str" THEN v.s ELSE "${AWS::AccountId}"

\* the concrete identifier behind one output of a descriptor
ConcreteIdentifier(d, outputName, env) ==
    CASE outputName = "table_name" -> PhysicalName(d, "table_name")
      [] outputName = "queue_url" ->
            "https://sqs." \o EnvText(env.region) \o ".amazonaws.com/"
                \o EnvText(env.account)
                \o "/" \o PhysicalName(d, "queue_name")
      [] outputName = "function_name" -> PhysicalName(d, "function_name")
      [] outputName = "url" ->
            "https://" \o d.logicalId \o ".execute-api." \o EnvText(env.region)
                \o ".amazonaws.com/prod/"

\* the snapshot (logicalId, outputName) -> concrete identifier of one synthesis
completedOutputs(descs, env) ==
    LET keys == {<<descs[i].logicalId, o>> :
                    i \in 1..Len(descs), o \in {"table_name", "queue_url", "function_name", "url"}}
        produced == {k \in keys : k[2] \in KindOutputs(Descriptor(descs, k[1]).kind)}
    IN  [k \in produced |-> ConcreteIdentifier(Descriptor(descs, k[1]), k[2], env)]

RefKey(ref) == <<ref.sourceLogicalId, ref.outputName>>

\* resolve: a pure lookup in the snapshot
resolve(ref, completed) == completed[RefKey(ref)]

ResolveDirect(v, completed) ==
    IF v.tag = "ref" THEN Lit(resolve(v, completed))
    ELSE IF v.tag = "join" THEN Lit(resolve(v.ref, completed) \o v.suffix)
    ELSE v

ResolveValue(v, completed) ==
    IF v.tag = "map"
    THEN Map([k \in DOMAIN v.entries |-> ResolveDirect(v.entries[k], completed)])
    ELSE ResolveDirect(v, completed)

\* every Reference of the graph: in descriptors' properties and in outputs
GraphRefs(descs, outs) ==
    UNION {PropRefs(descs[i].properties) : i \in 1..Len(descs)}
        \cup UNION {RefsOf(outs[i].value) : i \in 1..Len(outs)}

\* synthesize: the error the call raises, "None" when it succeeds
SynthError(descs, outs, env) ==
    IF \E r \in GraphRefs(descs, outs) : RefKey(r) \notin DOMAIN completedOutputs(descs, env)
    THEN "UnresolvedReference"
    ELSE "None"

\* synthesize: the document of a graph
synthesize(descs, gs, outs, stackName, env) ==
    LET completed == completedOutputs(descs, env)
    IN  [stackName |-> stackName,
         resources |->
            [i \in 1..Len(descs) |->
                [logicalId |-> descs[i].logicalId,
                 kind |-> descs[i].kind,
                 properties |->
                    [k \in DOMAIN descs[i].properties |->
                        ResolveValue(descs[i].properties[k], completed)],
                 policy |-> {g \in gs : g.principalLogicalId = descs[i].logicalId}]],
         outputs |->
            [i \in 1..Len(outs) |->
                [name |-> outs[i].name,
                 value |-> ResolveValue(outs[i].value, completed),
                 description |-> outs[i].description]]]

(***************************************************************************)
(* The entry point's environment and artifact                              *)
(***************************************************************************)
StackName == "QuickLinkStack"
DefaultRegion == "us-east-1"

\* cdk.Environment(account=..., region=... or "us-east-1")
Environment(acct, reg) ==
    [account |-> acct, region |-> IF Falsy(reg) THEN Lit(DefaultRegion) ELSE reg]

\* os.path.join("cdk.out", f"{stack_name}.template.json")
TemplateFile(stackName) == "cdk.out/" \o stackName \o ".template.json"

\* a file's content: the documents dumped into it, in order (<<>> when absent)
FileContent(fs, path) ==
    IF \E f \in fs : f.path = path
    THEN (CHOOSE f \in fs : f.path = path).content
    ELSE <<>>

\* variant: the file is opened for appending
WriteFile_append(fs, path, document) ==
    {f \in fs : f.path # path}
        \cup {[path |-> path, content |-> Append(FileContent(fs, path), document)]}

\* open(path, "w") and json.dump: the file holds the dumped document and nothing else
WriteFile(fs, path, document) ==
    {f \in fs : f.path # path} \cup {[path |-> path, content |-> <<document>>]}

(***************************************************************************)
(* QuickLinkStack.__init__: the statements of the stack, in program order  *)
(***************************************************************************)
Duration(unit, amount) == [tag |-> "duration", unit |-> unit, amount |-> amount]

ResourceStmt(kind, logicalId, properties) ==
    [op |-> "resource", kind |-> kind, logicalId |-> logicalId, properties |-> properties]
GrantStmt(principal, resource, capability) ==
    [op |-> "grant", principal |-> principal, resource |-> resource,
     capability |-> capability]
OutputStmt(name, value, description) ==
    [op |-> "output", name |-> name, value |-> value, description |-> description]
\* before the first statement of a run
NoStmt == [op |-> "none"]
\* app.synth()
SynthStmt == [op |-> "synth"]

urls_table ==
    ResourceStmt("Table", "UrlsTable",
        [table_name |-> Lit("quicklink-urls"),
         partition_key |-> Attribute("shortCode", "STRING"),
         billing_mode |-> Lit("PAY_PER_REQUEST"),
         removal_policy |-> Lit("DESTROY"),
         time_to_live_attribute |-> Lit("expiresAt")])

\* variant: the tokens table is given an expiry attribute as well
tokens_table_expiring ==
    ResourceStmt("Table", "TokensTable",
        [table_name |-> Lit("quicklink-tokens"),
         partition_key |-> Attribute("tokenId", "STRING"),
         billing_mode |-> Lit("PAY_PER_REQUEST"),
         removal_policy |-> Lit("DESTROY"),
         time_to_live_attribute |-> Lit("expiresAt")])

tokens_table ==
    ResourceStmt("Table", "TokensTable",
        [table_name |-> Lit("quicklink-tokens"),
         partition_key |-> Attribute("tokenId", "STRING"),
         billing_mode |-> Lit("PAY_PER_REQUEST"),
         removal_policy |-> Lit("DESTROY")])

\* variant: the queue reuses the urls table's logical id
analytics_queue_same_id ==
    ResourceStmt("Queue", "UrlsTable",
        [queue_name |-> Lit("quicklink-analytics"),
         retention_period |-> Duration("days", 4),
         visibility_timeout |-> Duration("seconds", 30)])

analytics_queue ==
    ResourceStmt("Queue", "AnalyticsQueue",
        [queue_name |-> Lit("quicklink-analytics"),
         retention_period |-> Duration("days", 4),
         visibility_timeout |-> Duration("seconds", 30)])

\* variant: the tokens table name is read from the urls table
quicklink_function_urls_twice ==
    ResourceStmt("Function", "QuickLinkFunction",
        [function_name |-> Lit("quicklink-service"),
         runtime |-> Lit("JAVA_17"),
         handler |-> Lit("inc.skt.quicklink.StreamLambdaHandler::handleRequest"),
         code |-> Lit("../target/quicklink-1.0.0-aws.jar"),
         memory_size |-> Num(512),
         timeout |-> Duration("seconds", 10),
         environment |-> Map(
            [SPRING_PROFILES_ACTIVE |-> Lit("prod"),
             DYNAMODB_TABLE_URLS |-> makeReference("UrlsTable", "table_name"),
             DYNAMODB_TABLE_TOKENS |-> makeReference("UrlsTable", "table_name"),
             AWS_SQS_ANALYTICS_QUEUE_URL |-> makeReference("AnalyticsQueue", "queue_url")])])

quicklink_function ==
    ResourceStmt("Function", "QuickLinkFunction",
        [function_name |-> Lit("quicklink-service"),
         runtime |-> Lit("JAVA_17"),
         handler |-> Lit("inc.skt.quicklink.StreamLambdaHandler::handleRequest"),
         code |-> Lit("../target/quicklink-1.0.0-aws.jar"),
         memory_size |-> Num(512),
         timeout |-> Duration("seconds", 10),
         environment |-> Map(
            [SPRING_PROFILES_ACTIVE |-> Lit("prod"),
             DYNAMODB_TABLE_URLS |-> makeReference("UrlsTable", "table_name"),
             DYNAMODB_TABLE_TOKENS |-> makeReference("TokensTable", "table_name"),
             AWS_SQS_ANALYTICS_QUEUE_URL |-> makeReference("AnalyticsQueue", "queue_url")])])

grant_urls_table == GrantStmt("QuickLinkFunction", "UrlsTable", "ReadWriteData")
\* variant: the second table grant repeats the first table
grant_tokens_table_repeated == GrantStmt("QuickLinkFunction", "UrlsTable", "ReadWriteData")
grant_tokens_table == GrantStmt("QuickLinkFunction", "TokensTable", "ReadWriteData")
\* variant: the queue is granted the tables' capability
grant_analytics_queue_read_write ==
    GrantStmt("QuickLinkFunction", "AnalyticsQueue", "ReadWriteData")
grant_analytics_queue == GrantStmt("QuickLinkFunction", "AnalyticsQueue", "SendMessage")

\* variant: the two throttling limits are exchanged
api_limits_exchanged ==
    ResourceStmt("ApiGateway", "QuickLinkApi",
        [rest_api_name |-> Lit("quicklink-api"),
         handler |-> Dep("QuickLinkFunction"),
         proxy |-> Bool(TRUE),
         binary_media_types |-> List(<<"*/*">>),
         deploy_options |-> Map(
            [stage_name |-> Lit("prod"),
             throttling_rate_limit |-> Num(100),
             throttling_burst_limit |-> Num(50)])])

api ==
    ResourceStmt("ApiGateway", "QuickLinkApi",
        [rest_api_name |-> Lit("quicklink-api"),
         handler |-> Dep("QuickLinkFunction"),
         proxy |-> Bool(TRUE),
         binary_media_types |-> List(<<"*/*">>),
         deploy_options |-> Map(
            [stage_name |-> Lit("prod"),
             throttling_rate_limit |-> Num(50),
             throttling_burst_limit |-> Num(100)])])

ApiUrl ==
    OutputStmt("ApiUrl", makeReference("QuickLinkApi", "url"),
               "API Gateway endpoint URL")
\* variant: the health suffix starts with a slash of its own
HealthEndpoint_slash ==
    OutputStmt("HealthEndpoint",
               Concat(makeReference("QuickLinkApi", "url"), "/api/v1/health"),
               "Health check endpoint URL")
HealthEndpoint ==
    OutputStmt("HealthEndpoint",
               Concat(makeReference("QuickLinkApi", "url"), "api/v1/health"),
               "Health check endpoint URL")
LambdaFunctionName ==
    OutputStmt("LambdaFunctionName", makeReference("QuickLinkFunction", "function_name"),
               "Lambda function name")
AnalyticsQueueUrl ==
    OutputStmt("AnalyticsQueueUrl", makeReference("AnalyticsQueue", "queue_url"),
               "SQS analytics queue URL")

\* variant: the gateway is declared before its backing function
StackProgram_gateway_first ==
    <<urls_table, tokens_table, analytics_queue, api, quicklink_function,
      grant_urls_table, grant_tokens_table, grant_analytics_queue,
      ApiUrl, HealthEndpoint, LambdaFunctionName, AnalyticsQueueUrl>>

StackProgram ==
    <<urls_table, tokens_table, analytics_queue, quicklink_function,
      grant_urls_table, grant_tokens_table, grant_analytics_queue,
      api, ApiUrl, HealthEndpoint, LambdaFunctionName, AnalyticsQueueUrl>>

(***************************************************************************)
(* Executing one construction statement against the graph                  *)
(***************************************************************************)
StmtError(s) ==
    CASE s.op = "resource" -> CreateError(descriptors, s.kind, s.logicalId, s.properties)
      [] s.op = "grant" -> GrantError(descriptors, s.principal, s.resource, s.capability)
      [] s.op = "output" -> OutputError(descriptors, s.value)

\* the statement's effect on the graph; a raised error leaves the graph as it was
Apply(s) ==
    IF StmtError(s) # "None"
    THEN UNCHANGED graphVars
    ELSE CASE s.op = "resource" ->
                /\ descriptors' = createResource(descriptors, s.kind, s.logicalId, s.properties)
                /\ UNCHANGED <<grants, outputs>>
           [] s.op = "grant" ->
                /\ grants' = grant(grants, s.principal, s.resource, s.capability)
                /\ UNCHANGED <<descriptors, outputs>>
           [] s.op = "output" ->
                /\ outputs' = Append(outputs, OutputDeclaration(s.name, s.value, s.description))
                /\ UNCHANGED <<descriptors, grants>>

\* variant: the error is recorded and the run carries on
Raise_logged(err) ==
    /\ error' = err
    /\ pc' = pc

\* no handler anywhere: an exception ends the run where it is raised
Raise(err) ==
    /\ error' = err
    /\ pc' = "failed"

\* the statement __init__ executes next (none once the constructor has returned)
Current(s) == stmt <= Len(StackProgram) /\ StackProgram[stmt] = s

\* one statement of __init__; the constructor returns after the last one
Exec(s) ==
    /\ pc = "construct"
    /\ driver = "QuickLinkStack"
    /\ Apply(s)
    /\ last' = s
    /\ IF StmtError(s) # "None"
       THEN Raise(StmtError(s)) /\ UNCHANGED stmt
       ELSE /\ stmt' = stmt + 1
            /\ pc' = IF stmt = Len(StackProgram) THEN "synth" ELSE "construct"
            /\ UNCHANGED error
    /\ UNCHANGED <<ctxVars, run, calls, template, fsVars>>

CreateUrlsTable ==
    /\ Current(urls_table)
    /\ Exec(urls_table)
CreateTokensTable ==
    /\ Current(tokens_table)
    /\ Exec(tokens_table)
CreateAnalyticsQueue ==
    /\ Current(analytics_queue)
    /\ Exec(analytics_queue)
CreateQuickLinkFunction ==
    /\ Current(quicklink_function)
    /\ Exec(quicklink_function)
GrantUrlsTable ==
    /\ Current(grant_urls_table)
    /\ Exec(grant_urls_table)
GrantTokensTable ==
    /\ Current(grant_tokens_table)
    /\ Exec(grant_tokens_table)
GrantAnalyticsQueue ==
    /\ Current(grant_analytics_queue)
    /\ Exec(grant_analytics_queue)
CreateQuickLinkApi ==
    /\ Current(api)
    /\ Exec(api)
OutputApiUrl ==
    /\ Current(ApiUrl)
    /\ Exec(ApiUrl)
OutputHealthEndpoint ==
    /\ Current(HealthEndpoint)
    /\ Exec(HealthEndpoint)
OutputLambdaFunctionName ==
    /\ Current(LambdaFunctionName)
    /\ Exec(LambdaFunctionName)
OutputAnalyticsQueueUrl ==
    /\ Current(AnalyticsQueueUrl)
    /\ Exec(AnalyticsQueueUrl)

(***************************************************************************)
(* app.py: the entry point                                                 *)
(***************************************************************************)
\* app = cdk.App(); QuickLinkStack(app, "QuickLinkStack", env=...): an empty graph
AppStart ==
    /\ pc = "app"
    /\ pc' = "construct"
    /\ stmt' = 1
    /\ descriptors' = <<>>
    /\ grants' = {}
    /\ outputs' = <<>>
    /\ UNCHANGED <<ctxVars, run, calls, last, template, error, fsVars>>

\* cloud_assembly = app.synth()
AppSynth ==
    /\ pc = "synth"
    /\ LET env == Environment(account, region)
           err == SynthError(descriptors, outputs, env)
       IN  IF err # "None"
           THEN Raise(err) /\ UNCHANGED template
           ELSE /\ template' = <<synthesize(descriptors, grants, outputs, StackName, env)>>
                /\ pc' = "makedirs"
                /\ UNCHANGED error
    /\ last' = SynthStmt
    /\ UNCHANGED <<ctxVars, run, stmt, calls, graphVars, fsVars>>

\* os.makedirs("cdk.out", exist_ok=True)
MakeDirs ==
    /\ pc = "makedirs"
    /\ outDir' = TRUE
    /\ pc' = "write"
    /\ UNCHANGED <<ctxVars, run, stmt, calls, last, graphVars, template, error, files>>

\* for stack_artifact in cloud_assembly.stacks: write its template
WriteTemplate ==
    /\ pc = "write"
    /\ files' = WriteFile(files, TemplateFile(template[1].stackName), template[1])
    /\ pc' = "done"
    /\ UNCHANGED <<ctxVars, run, stmt, calls, last, graphVars, template, error, outDir>>

\* the program is started again: a new process, the same context, the same disk
Rerun ==
    /\ pc \in {"done", "failed"}
    /\ driver = "QuickLinkStack"
    /\ run < MaxRuns
    /\ run' = run + 1
    /\ pc' = "app"
    /\ stmt' = 1
    /\ calls' = 0
    /\ last' = NoStmt
    /\ descriptors' = <<>>
    /\ grants' = {}
    /\ outputs' = <<>>
    /\ template' = <<>>
    /\ error' = "None"
    /\ UNCHANGED <<ctxVars, fsVars>>

(***************************************************************************)
(* Initial states                                                          *)
(***************************************************************************)
\* context values: absent, falsy ones, the literal string "None", a real region
Accounts == {Absent, Lit("123456789012")}
Regions ==
    {Absent, Lit(""), Num(0), Bool(FALSE), List(<<>>), Map(<<>>), Lit("None"), Lit("eu-west-1")}

\* a template left by an earlier version of the stack
StaleTemplate == [stackName |-> StackName, resources |-> <<>>, outputs |-> <<>>]

InitialDisks ==
    {[outDir |-> FALSE, files |-> {}],
     [outDir |-> TRUE,
      files |-> {[path |-> TemplateFile(StackName), content |-> <<StaleTemplate>>]}]}

InitWith(drivers) ==
    /\ driver \in drivers
    /\ account \in Accounts
    /\ region \in Regions
    /\ run = 1
    /\ pc = "app"
    /\ stmt = 1
    /\ calls = 0
    /\ last = NoStmt
    /\ descriptors = <<>>
    /\ grants = {}
    /\ outputs = <<>>
    /\ template = <<>>
    /\ error = "None"
    /\ \E d \in InitialDisks : outDir = d.outDir /\ files = d.files

Init == InitWith({"QuickLinkStack"})

(***************************************************************************)
(* An arbitrary caller of the graph engine: any construction calls, in any *)
(* order, followed by the entry point's synthesis and write                *)
(***************************************************************************)
CallerIds == {"UrlsTable", "AnalyticsQueue", "QuickLinkFunction", "QuickLinkApi"}

CallerPrincipals == {"QuickLinkFunction", "QuickLinkApi"}

FunctionProps(env) ==
    [runtime |-> Lit("JAVA_17"),
     handler |-> Lit("inc.skt.quicklink.StreamLambdaHandler::handleRequest"),
     code |-> Lit("../target/quicklink-1.0.0-aws.jar"),
     environment |-> Map(env)]

CallerProperties(kind) ==
    CASE kind = "Table" ->
            {urls_table.properties, [table_name |-> Lit("quicklink-urls")]}
      [] kind = "Queue" -> {analytics_queue.properties}
      [] kind = "Function" ->
            {FunctionProps([DYNAMODB_TABLE_URLS |-> makeReference("UrlsTable", "table_name")]),
             FunctionProps([DYNAMODB_TABLE_URLS |-> makeReference("UrlsTable", "queue_url")]),
             FunctionProps([SPRING_PROFILES_ACTIVE |-> Lit("prod")])}
      [] kind = "ApiGateway" -> {api.properties}

CallerOutputs == {HealthEndpoint, AnalyticsQueueUrl}

Call(s) ==
    /\ pc = "construct"
    /\ calls < MaxCalls
    /\ calls' = calls + 1
    /\ Apply(s)
    /\ last' = s
    /\ IF StmtError(s) # "None"
       THEN Raise(StmtError(s))
       ELSE UNCHANGED <<pc, error>>
    /\ UNCHANGED <<ctxVars, run, stmt, template, fsVars>>

CallCreateResource ==
    /\ driver = "Caller"
    /\ \E kind \in Kinds, id \in CallerIds :
        \E props \in CallerProperties(kind) : Call(ResourceStmt(kind, id, props))

CallGrant ==
    /\ driver = "Caller"
    /\ \E p \in CallerPrincipals, r \in CallerIds, c \in Capabilities :
        Call(GrantStmt(p, r, c))

CallDeclareOutput ==
    /\ driver = "Caller"
    /\ \E s \in CallerOutputs : Call(s)

\* the caller's construction is over
CallReturn ==
    /\ pc = "construct"
    /\ driver = "Caller"
    /\ pc' = "synth"
    /\ UNCHANGED <<ctxVars, run, stmt, calls, last, graphVars, template, error, fsVars>>

StackNext ==
    \/ CreateUrlsTable
    \/ CreateTokensTable
    \/ CreateAnalyticsQueue
    \/ CreateQuickLinkFunction
    \/ GrantUrlsTable
    \/ GrantTokensTable
    \/ GrantAnalyticsQueue
    \/ CreateQuickLinkApi
    \/ OutputApiUrl
    \/ OutputHealthEndpoint
    \/ OutputLambdaFunctionName
    \/ OutputAnalyticsQueueUrl

AppNext ==
    \/ AppStart
    \/ AppSynth
    \/ MakeDirs
    \/ WriteTemplate
    \/ Rerun

Next == StackNext \/ AppNext

Spec == Init /\ [][Next]_vars

\* the arbitrary caller is run with an empty context
EngineInit ==
    /\ InitWith({"QuickLinkStack", "Caller"})
    /\ driver = "Caller" => account = Absent /\ region = Absent

EngineNext ==
    \/ Next
    \/ CallCreateResource
    \/ CallGrant
    \/ CallDeclareOutput
    \/ CallReturn

EngineSpec == EngineInit /\ [][EngineNext]_vars

(***************************************************************************)
(* Properties                                                              *)
(***************************************************************************)
\* construction has completed: __init__ (or the caller) has returned
Composed == pc \in {"synth", "makedirs", "write", "done"}

Synthesized == template # <<>>

DocResource(doc, id) ==
    doc.resources[CHOOSE i \in 1..Len(doc.resources) : doc.resources[i].logicalId = id]

DocIds(doc) == {doc.resources[i].logicalId : i \in 1..Len(doc.resources)}

OfKind(descs, kind) == {descs[i].logicalId : i \in {j \in 1..Len(descs) : descs[j].kind = kind}}

\* the grants of the full topology
FullTopologyGrants ==
    {GrantStatement("QuickLinkFunction", "UrlsTable", CapabilityActions("ReadWriteData")),
     GrantStatement("QuickLinkFunction", "TokensTable", CapabilityActions("ReadWriteData")),
     GrantStatement("QuickLinkFunction", "AnalyticsQueue", CapabilityActions("SendMessage"))}

\* C2: the stack never holds a grant outside the three of the full topology
\* (function -> urls table ReadWriteData, function -> tokens table
\* ReadWriteData, function -> analytics queue SendMessage, all Allow with the
\* function as principal); once composed it holds exactly these three, and the
\* synthesized document attaches exactly these to the function and none to
\* any other resource.
C2_ExactGrants ==
    driver = "QuickLinkStack" =>
        /\ grants \subseteq FullTopologyGrants
        /\ \A g \in grants : g.principalLogicalId = "QuickLinkFunction" /\ g.effect = "Allow"
        /\ Composed => grants = FullTopologyGrants
        /\ Synthesized =>
            \A id \in DocIds(template[1]) :
                DocResource(template[1], id).policy =
                    IF id = "QuickLinkFunction" THEN FullTopologyGrants ELSE {}

C2_Witness ==
    /\ driver = "QuickLinkStack"
    /\ pc = "done"
    /\ Cardinality(grants) = 3
    /\ DocResource(template[1], "QuickLinkFunction").policy = grants

HasExpiry(properties) == "time_to_live_attribute" \in DOMAIN properties

ExpiringTables(descs) ==
    {id \in OfKind(descs, "Table") : HasExpiry(Descriptor(descs, id).properties)}

\* C4: no table other than the urls table ever carries an expiration
\* attribute; the urls table carries "expiresAt"; a composed graph has two
\* tables of which exactly one, the urls table, configures expiry, and the
\* synthesized document shows the same.
C4_OneExpiringTable ==
    driver = "QuickLinkStack" =>
        /\ ExpiringTables(descriptors) \subseteq {"UrlsTable"}
        /\ "UrlsTable" \in Ids(descriptors) =>
            /\ ExpiringTables(descriptors) = {"UrlsTable"}
            /\ Descriptor(descriptors, "UrlsTable").properties.time_to_live_attribute
                    = Lit("expiresAt")
        /\ Composed =>
            /\ OfKind(descriptors, "Table") = {"UrlsTable", "TokensTable"}
            /\ Cardinality(ExpiringTables(descriptors)) = 1
            /\ ~HasExpiry(Descriptor(descriptors, "TokensTable").properties)
        /\ Synthesized =>
            /\ HasExpiry(DocResource(template[1], "UrlsTable").properties)
            /\ ~HasExpiry(DocResource(template[1], "TokensTable").properties)

C4_Witness ==
    /\ driver = "QuickLinkStack"
    /\ Synthesized
    /\ {"UrlsTable", "TokensTable"} \subseteq Ids(descriptors)
    /\ ExpiringTables(descriptors) = {"UrlsTable"}

Throttling(properties) ==
    <<properties.deploy_options.entries.throttling_rate_limit,
      properties.deploy_options.entries.throttling_burst_limit>>

\* C5: the composed graph has one gateway, its handler is the compute
\* function, and its throttling is rate limit 50 and burst limit 100; the
\* synthesized document carries the same handler and the same two numbers.
C5_GatewayThrottling ==
    driver = "QuickLinkStack" =>
        /\ Composed =>
            /\ OfKind(descriptors, "ApiGateway") = {"QuickLinkApi"}
            /\ OfKind(descriptors, "Function") = {"QuickLinkFunction"}
            /\ Descriptor(descriptors, "QuickLinkApi").properties.handler
                    = Dep("QuickLinkFunction")
            /\ Throttling(Descriptor(descriptors, "QuickLinkApi").properties)
                    = <<Num(50), Num(100)>>
        /\ Synthesized =>
            /\ DocResource(template[1], "QuickLinkApi").properties.handler
                    = Dep("QuickLinkFunction")
            /\ Throttling(DocResource(template[1], "QuickLinkApi").properties)
                    = <<Num(50), Num(100)>>

C5_Witness ==
    /\ driver = "QuickLinkStack"
    /\ pc = "done"
    /\ "QuickLinkApi" \in DocIds(template[1])

OutputNames(outs) == [i \in 1..Len(outs) |-> outs[i].name]

\* C6: the synthesized output list is, in this order, the gateway URL, the
\* health-check URL, the function's name and the queue URL; the health-check
\* value is the gateway URL's value followed by "api/v1/health"; and in a
\* composed graph the queue URL output is declared exactly when the queue
\* resource exists.
C6_OutputManifest ==
    driver = "QuickLinkStack" =>
        /\ Composed =>
            (("AnalyticsQueueUrl" \in {outputs[i].name : i \in 1..Len(outputs)})
                <=> ("AnalyticsQueue" \in Ids(descriptors)))
        /\ Synthesized =>
            LET outs == template[1].outputs
            IN  /\ OutputNames(outs) =
                    <<"ApiUrl", "HealthEndpoint", "LambdaFunctionName", "AnalyticsQueueUrl">>
                /\ outs[1].value.tag = "str"
                /\ outs[2].value = Lit(outs[1].value.s \o "api/v1/health")
                /\ outs[3].value = Lit("quicklink-service")
                /\ outs[4].value =
                    DocResource(template[1], "QuickLinkFunction")
                        .properties.environment.entries.AWS_SQS_ANALYTICS_QUEUE_URL

C6_Witness ==
    /\ driver = "QuickLinkStack"
    /\ pc = "done"
    /\ Len(template[1].outputs) = 4
    /\ "AnalyticsQueue" \in Ids(descriptors)

\* C8: a finished run leaves exactly its synthesized document in
\* cdk.out/QuickLinkStack.template.json, and the write of a later run with
\* the same context leaves the file system as the earlier run left it.
C8_Idempotent ==
    /\ [](driver = "QuickLinkStack" /\ pc = "done" =>
            FileContent(files, TemplateFile(StackName)) = template)
    /\ [][driver = "QuickLinkStack" /\ run > 1 /\ pc = "write" =>
            files' = files /\ outDir' = outDir]_vars

C8_Witness ==
    /\ driver = "QuickLinkStack"
    /\ run = 2
    /\ pc = "done"
    /\ FileContent(files, TemplateFile(StackName)) = template

TemplateUntouched == FileContent(files, TemplateFile(StackName)) \in {<<>>, <<StaleTemplate>>}

\* the construction statement executed last was refused
Refused == pc = "failed" /\ last.op \in {"resource", "grant", "output"}

\* C1: the stack builds its graph in dependency order (tables and queue
\* before the function, the function before any grant, the gateway after the
\* function, outputs after gateway and function) and raises no ordering
\* error; in every graph each grant's principal and resource and each
\* dependency of a descriptor or output already exist; a resource or output
\* naming a missing dependency is refused with OutOfOrderConstruction
\* and a grant naming a missing principal or resource with DanglingGrant,
\* both leaving the graph as it was and no artifact written.
C1_DependencyOrder ==
    /\ [](driver = "QuickLinkStack" =>
            /\ error \notin {"OutOfOrderConstruction", "DanglingGrant"}
            /\ "QuickLinkFunction" \in Ids(descriptors) =>
                    {"UrlsTable", "TokensTable", "AnalyticsQueue"} \subseteq Ids(descriptors)
            /\ grants # {} => "QuickLinkFunction" \in Ids(descriptors)
            /\ "QuickLinkApi" \in Ids(descriptors) => "QuickLinkFunction" \in Ids(descriptors)
            /\ outputs # <<>> =>
                    {"QuickLinkApi", "QuickLinkFunction"} \subseteq Ids(descriptors))
    /\ [](/\ \A g \in grants :
                {g.principalLogicalId, g.resourceLogicalId} \subseteq Ids(descriptors)
          /\ \A i \in 1..Len(descriptors) :
                PropDeps(descriptors[i].properties)
                    \subseteq Ids(SubSeq(descriptors, 1, i - 1))
          /\ \A i \in 1..Len(outputs) : DepsOf(outputs[i].value) \subseteq Ids(descriptors))
    /\ [](/\ (/\ last.op = "resource"
              /\ last.logicalId \notin Ids(descriptors)
              /\ RequiredProps(last.kind) \subseteq DOMAIN last.properties
              /\ ~(PropDeps(last.properties) \subseteq Ids(descriptors)))
                => error = "OutOfOrderConstruction"
          /\ (last.op = "output" /\ ~(DepsOf(last.value) \subseteq Ids(descriptors)))
                => error = "OutOfOrderConstruction"
          /\ (last.op = "grant" /\ ~({last.principal, last.resource} \subseteq Ids(descriptors)))
                => error = "DanglingGrant")
    /\ [](error \in {"OutOfOrderConstruction", "DanglingGrant"} =>
            pc = "failed" /\ ~Synthesized /\ TemplateUntouched)
    /\ [][error' \in {"OutOfOrderConstruction", "DanglingGrant"} /\ error = "None" =>
            UNCHANGED graphVars /\ UNCHANGED fsVars]_vars

\* the gateway was attached before its backing function existed
C1_Witness ==
    /\ Refused
    /\ last.op = "resource"
    /\ last.kind = "ApiGateway"
    /\ last.properties = api.properties
    /\ "QuickLinkFunction" \notin Ids(descriptors)
    /\ error = "OutOfOrderConstruction"
    /\ TemplateUntouched

\* C3: every grant statement of a graph carries exactly the action set the
\* capability table gives for a capability its resource's kind supports; a
\* grant between existing descriptors yields that statement when the kind
\* supports the capability and is refused with UnsupportedCapability,
\* leaving the grants as they were, when it does not; the stack's grants
\* (ReadWriteData on its tables, SendMessage on its queue) are all supported.
C3_GrantActions ==
    /\ [](\A g \in grants :
            /\ g.resourceLogicalId \in Ids(descriptors)
            /\ \E c \in SupportedCapabilities(Descriptor(descriptors, g.resourceLogicalId).kind) :
                    g.actions = CapabilityActions(c))
    /\ []((last.op = "grant" /\ {last.principal, last.resource} \subseteq Ids(descriptors)) =>
            IF last.capability
                    \in SupportedCapabilities(Descriptor(descriptors, last.resource).kind)
            THEN /\ error = "None"
                 /\ GrantStatement(last.principal, last.resource,
                                   CapabilityActions(last.capability)) \in grants
            ELSE /\ error = "UnsupportedCapability"
                 /\ pc = "failed")
    /\ [](driver = "QuickLinkStack" =>
            /\ error # "UnsupportedCapability"
            /\ \A g \in grants :
                    g.actions =
                        IF Descriptor(descriptors, g.resourceLogicalId).kind = "Table"
                        THEN CapabilityActions("ReadWriteData")
                        ELSE CapabilityActions("SendMessage"))
    /\ [][error' = "UnsupportedCapability" => grants' = grants]_vars

\* SendMessage was requested on a table
C3_Witness ==
    /\ Refused
    /\ last = GrantStmt("QuickLinkFunction", "UrlsTable", "SendMessage")
    /\ {"QuickLinkFunction", "UrlsTable"} \subseteq Ids(descriptors)
    /\ error = "UnsupportedCapability"
    /\ grants = {}

\* C7: a run that raised an error is stopped at the error: it has no
\* synthesized document, takes no further step, and writes nothing; the
\* output directory and the artifact change only in a run that has
\* synthesized without error, after construction and synthesis.
C7_ErrorsAreFatal ==
    /\ [](error # "None" => pc = "failed")
    /\ [](pc = "failed" => error # "None" /\ ~Synthesized)
    /\ [](pc \in {"makedirs", "write", "done"} => Synthesized /\ error = "None")
    /\ [][error # "None" => run' = run + 1]_vars
    /\ [][files' # files => pc = "write" /\ pc' = "done" /\ Synthesized /\ error = "None"]_vars
    /\ [][outDir' # outDir => pc = "makedirs" /\ Synthesized /\ error = "None"]_vars

\* synthesis failed, after a construction that succeeded
C7_Witness ==
    /\ pc = "failed"
    /\ error = "UnresolvedReference"
    /\ Len(descriptors) > 0
    /\ TemplateUntouched

BadRefs(descs, outs) ==
    {r \in GraphRefs(descs, outs) :
        \/ r.sourceLogicalId \notin Ids(descs)
        \/ r.outputName \notin KindOutputs(Descriptor(descs, r.sourceLogicalId).kind)}

Resolved(v) == v.tag \notin {"ref", "join"}

\* the value a Reference-bearing value must have in the document
Expected(v, env) ==
    IF v.tag = "ref"
    THEN Lit(ConcreteIdentifier(Descriptor(descriptors, v.sourceLogicalId), v.outputName, env))
    ELSE IF v.tag = "join"
    THEN Lit(ConcreteIdentifier(Descriptor(descriptors, v.ref.sourceLogicalId),
                                v.ref.outputName, env) \o v.suffix)
    ELSE v

\* C9: in a synthesized document every Reference of the graph names an
\* existing descriptor and one of its outputs, no property, configuration
\* value or output is left as a Reference, and each stands at the concrete
\* identifier of its source output (the stack's function reads the two table
\* names and the queue URL); synthesis of a graph with a Reference to an
\* output its source does not expose fails with UnresolvedReference.
C9_ReferencesResolved ==
    /\ [](Synthesized =>
            LET doc == template[1]
                env == Environment(account, region)
            IN  /\ BadRefs(descriptors, outputs) = {}
                /\ \A i \in 1..Len(descriptors) :
                    \A k \in DOMAIN descriptors[i].properties :
                        LET v == descriptors[i].properties[k]
                            w == doc.resources[i].properties[k]
                        IN  IF v.tag = "map"
                            THEN \A e \in DOMAIN v.entries :
                                    /\ Resolved(w.entries[e])
                                    /\ w.entries[e] = Expected(v.entries[e], env)
                            ELSE Resolved(w) /\ w = Expected(v, env)
                /\ \A i \in 1..Len(outputs) :
                    /\ Resolved(doc.outputs[i].value)
                    /\ doc.outputs[i].value = Expected(outputs[i].value, env))
    /\ [](driver = "QuickLinkStack" /\ Synthesized =>
            LET cfg == DocResource(template[1], "QuickLinkFunction")
                            .properties.environment.entries
            IN  /\ cfg.DYNAMODB_TABLE_URLS = Lit("quicklink-urls")
                /\ cfg.DYNAMODB_TABLE_TOKENS = Lit("quicklink-tokens")
                /\ cfg.AWS_SQS_ANALYTICS_QUEUE_URL =
                        Expected(makeReference("AnalyticsQueue", "queue_url"),
                                 Environment(account, region)))
    /\ [](error = "UnresolvedReference" => BadRefs(descriptors, outputs) # {})
    /\ [][pc = "synth" /\ BadRefs(descriptors, outputs) # {} =>
            error' = "UnresolvedReference" /\ pc' = "failed" /\ template' = <<>>]_vars

\* the stack's document: three configuration values and four outputs resolved
C9_Witness ==
    /\ driver = "QuickLinkStack"
    /\ pc = "done"
    /\ Cardinality(GraphRefs(descriptors, outputs)) = 5
    /\ DocResource(template[1], "QuickLinkFunction")
            .properties.environment.entries.DYNAMODB_TABLE_TOKENS = Lit("quicklink-tokens")

ResourceStmts == {i \in 1..Len(StackProgram) : StackProgram[i].op = "resource"}

\* C10: no two descriptors of a graph share a logical id; a created
\* descriptor is registered once, under its id and kind; creating a
\* descriptor under a registered id is refused with DuplicateIdentity
\* whatever the two kinds are, leaving the descriptors as they were; the
\* stack's logical ids are pairwise distinct and it never raises the error.
C10_UniqueLogicalIds ==
    /\ [](\A i, j \in 1..Len(descriptors) :
            descriptors[i].logicalId = descriptors[j].logicalId => i = j)
    /\ []((last.op = "resource" /\ error = "None" /\ pc = "construct") =>
            /\ descriptors[Len(descriptors)].logicalId = last.logicalId
            /\ descriptors[Len(descriptors)].kind = last.kind)
    /\ []((Refused /\ last.op = "resource" /\ last.logicalId \in Ids(descriptors)) =>
            error = "DuplicateIdentity")
    /\ [](driver = "QuickLinkStack" => error # "DuplicateIdentity")
    /\ [](\A i, j \in ResourceStmts :
            StackProgram[i].logicalId = StackProgram[j].logicalId => i = j)
    /\ [][error' = "DuplicateIdentity" => descriptors' = descriptors]_vars

\* a queue was created under the id of a registered table
C10_Witness ==
    /\ Refused
    /\ last.op = "resource"
    /\ last.logicalId \in Ids(descriptors)
    /\ last.kind # Descriptor(descriptors, last.logicalId).kind
    /\ error = "DuplicateIdentity"
====
